---- MODULE Spec2Model ----
(***************************************************************************)
(* Model of src/app.py: the pair-eligibility filter (get_supported_pairs), *)
(* the price aggregator (get_prices), the arbitrage calculator             *)
(* (calculate_arbitrage) and the request handler (get_data_api), with the  *)
(* two process-wide globals unsupported_pairs and transaction_history.     *)
(*                                                                         *)
(* app.run serves every request in a thread of its own, so two handlers    *)
(* run the same code on the same globals. A step of a handler is one       *)
(* statement that reads or writes a global, or one call to an exchange;    *)
(* between two steps of a handler the other handler may take any number    *)
(* of steps.                                                               *)
(*                                                                         *)
(* Representation.                                                         *)
(*  - Python's None is the empty sequence; a present value x is <<x>>.     *)
(*  - A dict is kept with its insertion order: the exchanges dict is the   *)
(*    sequence ExchangeOrder, a per-pair price dict is a function over     *)
(*    Exchanges iterated in ExchangeOrder, all_prices is a sequence of     *)
(*    [pair, prices] items.                                                *)
(*  - Fractions 0.001, 0.0005, 0.002 are integers in units of 1/BP.        *)
(*  - Non-integer results (roi, spread, avg_price, usd_operation_value)    *)
(*    are fixed-point integers in units of 1/Scale, rounded down.          *)
(***************************************************************************)
EXTENDS Integers, Sequences, FiniteSets, TLC

\* ------------------------------------------------------------- bounds
\* Number of candidate pairs taken from initial_pairs (the code has 12).
NumPairs == 2
\* Number of exchanges taken from the exchanges dict (the code has 6).
NumExchanges == 3
\* Largest value of the wall clock (seconds since the process started).
MaxClock == 1

\* ---------------------------------------------------- program constants
BP == 100 * 100
Scale == 10 * 10 * 10
\* min_profit_margin = 0.002, in units of 1/BP
min_profit_margin == 20
\* transaction_fee = 0.001, in units of 1/BP
transaction_fee == 10
\* slippage = 0.0005, in units of 1/BP
slippage == 5
\* fixed_investment = 100 (dollars)
fixed_investment == 100

initial_pairs ==
    << "ETH/USDT", "XRP/USDT", "ADA/USDT", "NEAR/USDT",
       "TRON/USDT", "DOT/USDT", "AVAX/USDT", "TON/USDT",
       "ENA/USDT", "AAVE/USDT", "LTC/USDT", "APT/USDT" >>

exchanges ==
    << "binance", "kraken", "coinbase", "kucoin", "bitget", "bitfinex" >>

\* The candidate list handed to get_supported_pairs, cut to NumPairs.
Pairs == SubSeq(initial_pairs, 1, NumPairs)
\* The exchanges dict in its iteration (insertion) order, cut to NumExchanges.
ExchangeOrder == SubSeq(exchanges, 1, NumExchanges)

\* ------------------------------------------------------------ helpers
Range(s) == { s[i] : i \in DOMAIN s }

PairSet == Range(Pairs)
Exchanges == Range(ExchangeOrder)

None == << >>
Some(x) == << x >>

\* The sell side of every evaluation: the literal "binance" of the code.
reference == "binance"

\* The two threads that handle requests at the same time.
Handlers == { "first", "second" }

VARIABLES
    unsupported_pairs,    \* global set unsupported_pairs
    transaction_history,  \* global list transaction_history
    now,                  \* the wall clock read by datetime.now()
    handler               \* for each thread, the locals of its request

vars == << unsupported_pairs, transaction_history, now, handler >>

\* The locals of a thread that has not taken a request. Beside the locals of
\* the code, a frame keeps what the thread observed: markets, ticker,
\* evaluations, entry_unsupported and entry_history.
IdleFrame ==
    [ pc |-> "start",
      \* get_supported_pairs
      cursor |-> 1,                 \* index of the pair of the running loop
      exchange |-> 1,               \* index of the exchange of the inner loop
      supported_exchanges |-> << >>,
      supported_pairs |-> << >>,
      markets |-> << >>,            \* answers of load_markets about the pair
      entry_unsupported |-> { },    \* unsupported_pairs when the running
                                    \* call began; { } outside the call
      \* get_prices
      pair_prices |-> << >>,        \* the dict prices of the current pair
      all_prices |-> << >>,
      ticker |-> None,              \* outcome of the last fetch_ticker call
      \* calculate_arbitrage
      evaluations |-> << >>,        \* figures logged for each evaluated pair
      entry_history |-> << >>,      \* transaction_history when the call began
      transaction |-> None,         \* the dict transaction built at line 136
      \* get_data_api
      pairs |-> << >>,
      prices |-> << >>,
      results |-> << >>,
      total_roi |-> 0,
      total_usd_operations |-> 0,
      response |-> None ]

\* The step of thread h that turns its frame into f.
Becomes(h, f) == handler' = [ handler EXCEPT ![h] = f ]

\* ------------------------------------------------- get_supported_pairs
\* What one exchange answers about one pair during a call: whether its market
\* list holds the pair (`pair in markets`) and whether load_markets() raises.
\* A call that raises at an exchange that does not list the pair is left out:
\* the code cannot tell it from the answer "not listed" of a call that returns.
MarketOutcome ==
    { [ lists |-> TRUE, raises |-> FALSE ],
      [ lists |-> FALSE, raises |-> FALSE ],
      [ lists |-> TRUE, raises |-> TRUE ] }

FoundDespiteRaise(outcome) == outcome.lists

\* Lines 48-49: the call returned and the pair is in the market list.
Found(outcome) == ~outcome.raises /\ outcome.lists

\* Lines 47-52: the try block for one exchange: the name is appended when the
\* pair was found; an exception is caught and logged, and changes nothing.
TryExchange(supported_exchanges, e, outcome) ==
    IF Found(outcome)
    THEN Append(supported_exchanges, e)
    ELSE supported_exchanges

\* The inner loop over exchanges.items() for one pair, o[e] being the outcome
\* of exchange e: the loop goes on with the next exchange whatever the try
\* block did.
RECURSIVE ExchangeLoop(_, _, _)
ExchangeLoop(o, i, supported_exchanges) ==
    IF i > Len(ExchangeOrder)
    THEN supported_exchanges
    ELSE ExchangeLoop(o, i + 1,
                      TryExchange(supported_exchanges, ExchangeOrder[i],
                                  o[ExchangeOrder[i]]))

\* Lines 45-52: the names in supported_exchanges after the inner loop.
SupportedExchanges(o) == ExchangeLoop(o, 1, << >>)

\* The load_markets calls the inner loop makes for one pair.
PairQueries(pair) == { << pair, e >> : e \in Exchanges }

\* The test `len(supported_exchanges) >= 2`.
IsSupported(supported_exchanges) == Len(supported_exchanges) >= 2

IsSkippedNever(pair, unsup) == FALSE

\* The test `pair in unsupported_pairs` that skips a pair.
IsSkipped(pair, unsup) == pair \in unsup

DecidePrepends(pair, supported_exchanges, st) ==
    IF IsSupported(supported_exchanges)
    THEN [ st EXCEPT !.supported_pairs = << pair >> \o @ ]
    ELSE [ st EXCEPT !.unsupported_pairs = @ \cup { pair } ]

\* Lines 53-58: the pair is appended to the local list supported_pairs, or
\* added to the global set unsupported_pairs as it is at that moment.
Decide(pair, supported_exchanges, st) ==
    IF IsSupported(supported_exchanges)
    THEN [ st EXCEPT !.supported_pairs = Append(@, pair) ]
    ELSE [ st EXCEPT !.unsupported_pairs = @ \cup { pair } ]

\* One iteration of `for pair in pairs` during which no other thread writes
\* unsupported_pairs. st holds the local list supported_pairs, the global
\* unsupported_pairs and the calls made so far.
FilterBody(pair, o, st) ==
    IF IsSkipped(pair, st.unsupported_pairs)
    THEN st
    ELSE [ Decide(pair, SupportedExchanges(o), st)
             EXCEPT !.queries = @ \cup PairQueries(pair) ]

RECURSIVE FilterLoop(_, _, _, _)
FilterLoop(ps, i, m, st) ==
    IF i > Len(ps)
    THEN st
    ELSE FilterLoop(ps, i + 1, m, FilterBody(ps[i], m[ps[i]], st))

\* The whole function when it runs alone: its return value supported_pairs,
\* the global unsupported_pairs after it, and the load_markets calls it made.
get_supported_pairs(ps, unsup, m) ==
    FilterLoop(ps, 1, m,
               [ supported_pairs |-> << >>,
                 unsupported_pairs |-> unsup,
                 queries |-> { } ])

\* The pair and the exchange a thread is at in its loops.
PairAt(f) == Pairs[f.cursor]
ExchangeAt(f) == ExchangeOrder[f.exchange]

\* A request arrives: get_data_api line 161 calls
\* get_supported_pairs(initial_pairs), which starts at line 41. A thread takes
\* its first request, or the next one after it has answered.
EnterFilter(h) ==
    /\ handler[h].pc \in { "start", "responded" }
    /\ Becomes(h, [ IdleFrame EXCEPT
                      !.pc = "filtering",
                      !.entry_unsupported = unsupported_pairs ])
    /\ UNCHANGED << unsupported_pairs, transaction_history, now >>

\* Lines 42-45: the next pair of the loop is tested against the global set as
\* it is now; a pair in it is skipped, for another the inner loop begins.
TestPair(h) ==
    LET f == handler[h]
    IN /\ f.pc = "filtering"
       /\ f.cursor <= Len(Pairs)
       /\ IF IsSkipped(PairAt(f), unsupported_pairs)
          THEN Becomes(h, [ f EXCEPT !.cursor = @ + 1 ])
          ELSE Becomes(h, [ f EXCEPT !.pc = "querying",
                                     !.exchange = 1,
                                     !.supported_exchanges = << >>,
                                     !.markets = << >> ])
       /\ UNCHANGED << unsupported_pairs, transaction_history, now >>

\* Lines 46-52: one load_markets call, at the next exchange of the inner loop.
LoadMarkets(h) ==
    LET f == handler[h]
    IN /\ f.pc = "querying"
       /\ f.exchange <= Len(ExchangeOrder)
       /\ \E outcome \in MarketOutcome :
             Becomes(h, [ f EXCEPT
                            !.supported_exchanges =
                                TryExchange(@, ExchangeAt(f), outcome),
                            !.markets = Append(@, outcome),
                            !.exchange = @ + 1 ])
       /\ UNCHANGED << unsupported_pairs, transaction_history, now >>

\* Lines 53-58: the inner loop is over; the pair goes to supported_pairs or
\* to the global set, and the outer loop moves on.
DecidePair(h) ==
    LET f == handler[h]
        st == Decide(PairAt(f), f.supported_exchanges,
                     [ supported_pairs |-> f.supported_pairs,
                       unsupported_pairs |-> unsupported_pairs ])
    IN /\ f.pc = "querying"
       /\ f.exchange > Len(ExchangeOrder)
       /\ unsupported_pairs' = st.unsupported_pairs
       /\ Becomes(h, [ f EXCEPT !.pc = "filtering",
                                !.supported_pairs = st.supported_pairs,
                                !.cursor = @ + 1,
                                !.exchange = 1,
                                !.supported_exchanges = << >>,
                                !.markets = << >> ])
       /\ UNCHANGED << transaction_history, now >>

\* Lines 59-60: the loop is over, supported_pairs is returned to get_data_api.
ReturnFilter(h) ==
    LET f == handler[h]
    IN /\ f.pc = "filtering"
       /\ f.cursor > Len(Pairs)
       /\ Becomes(h, [ f EXCEPT !.pc = "filtered",
                                !.pairs = f.supported_pairs,
                                !.supported_pairs = << >>,
                                !.entry_unsupported = { },
                                !.cursor = 1 ])
       /\ UNCHANGED << unsupported_pairs, transaction_history, now >>

InitGlobals ==
    /\ unsupported_pairs = { }
    /\ transaction_history = << >>
    /\ now = 0

\* ----------------------------------------------------------- get_prices
\* Lines 69-73 and 77: the entry stored for one fetch_ticker call. f is None
\* when the call raised, else the ticker; the entry keeps the ticker's last
\* and quoteVolume.
PriceEntry(f) ==
    IF f = None
    THEN None
    ELSE Some([ last |-> f[1].last, volume |-> f[1].quoteVolume ])

SetEntryClearsOnFailure(prices, e, f) ==
    [ x \in DOMAIN prices \cup { e } |->
        IF f = None THEN None
        ELSE IF x = e THEN PriceEntry(f) ELSE prices[x] ]

\* Lines 68-77: prices[exchange_name] = ... on the dict of the current pair,
\* whether the call returned or raised.
SetEntry(prices, e, f) ==
    [ x \in DOMAIN prices \cup { e } |->
        IF x = e THEN PriceEntry(f) ELSE prices[x] ]

RECURSIVE TickerLoop(_, _, _, _)
TickerLoop(pair, t, i, prices) ==
    IF i > Len(ExchangeOrder)
    THEN prices
    ELSE TickerLoop(pair, t, i + 1,
                    SetEntry(prices, ExchangeOrder[i],
                             t[pair][ExchangeOrder[i]]))

\* Lines 66-77: the inner loop, the dict prices of one pair, t[pair][e] being
\* the outcome of fetch_ticker(pair) on exchange e.
PairPrices(pair, t) == TickerLoop(pair, t, 1, << >>)

\* all_prices[pair] = prices on an insertion-ordered dict: a key already
\* present keeps its place and takes the new value.
DictSet(d, k, v) ==
    IF \E i \in DOMAIN d : d[i].pair = k
    THEN [ i \in DOMAIN d |->
             IF d[i].pair = k THEN [ pair |-> k, prices |-> v ] ELSE d[i] ]
    ELSE Append(d, [ pair |-> k, prices |-> v ])

RECURSIVE PricesLoop(_, _, _, _)
PricesLoop(ps, i, t, all_prices) ==
    IF i > Len(ps)
    THEN all_prices
    ELSE PricesLoop(ps, i + 1, t,
                    DictSet(all_prices, ps[i], PairPrices(ps[i], t)))

\* The whole function: the dict it returns.
get_prices(ps, t) == PricesLoop(ps, 1, t, << >>)

\* What the exchanges report in the runs explored: the reference exchange
\* quotes 3020 with a 24h volume, the first other exchange a price that
\* depends on the pair and no volume, every further exchange 3000.
PairIndex(pair) == CHOOSE i \in DOMAIN Pairs : Pairs[i] = pair

TickerLast(pair, e) ==
    IF e = reference
    THEN 3020
    ELSE IF e = ExchangeOrder[2]
         THEN 3010 - 10 * PairIndex(pair)
         ELSE 3000

TickerVolume(e) == IF e = reference THEN Some(1) ELSE None

\* The ticker of a call that returns a last price.
Quote(pair, e) ==
    Some([ last |-> Some(TickerLast(pair, e)),
           quoteVolume |-> TickerVolume(e) ])

\* Outcomes of one fetch_ticker call: it raises, or returns a ticker without
\* a last price, or returns the quote of the exchange.
FetchOutcomes(pair, e) ==
    { None, Some([ last |-> None, quoteVolume |-> None ]), Quote(pair, e) }

\* get_data_api line 162 calls get_prices(pairs), which starts at line 64.
EnterPrices(h) ==
    LET f == handler[h]
    IN /\ f.pc = "filtered"
       /\ Becomes(h, [ f EXCEPT !.pc = "fetching",
                                !.cursor = 1,
                                !.exchange = 1,
                                !.all_prices = << >>,
                                !.pair_prices = << >> ])
       /\ UNCHANGED << unsupported_pairs, transaction_history, now >>

\* Lines 67-77: one fetch_ticker call, at the next exchange of the inner loop.
FetchTicker(h) ==
    LET f == handler[h]
    IN /\ f.pc = "fetching"
       /\ f.cursor <= Len(f.pairs)
       /\ f.exchange <= Len(ExchangeOrder)
       /\ \E t \in FetchOutcomes(f.pairs[f.cursor], ExchangeAt(f)) :
             Becomes(h, [ f EXCEPT
                            !.pair_prices = SetEntry(@, ExchangeAt(f), t),
                            !.ticker = t,
                            !.exchange = @ + 1 ])
       /\ UNCHANGED << unsupported_pairs, transaction_history, now >>

\* Line 78: the inner loop is over, all_prices[pair] = prices.
StorePrices(h) ==
    LET f == handler[h]
    IN /\ f.pc = "fetching"
       /\ f.cursor <= Len(f.pairs)
       /\ f.exchange > Len(ExchangeOrder)
       /\ Becomes(h, [ f EXCEPT
                         !.all_prices =
                             DictSet(@, f.pairs[f.cursor], f.pair_prices),
                         !.cursor = @ + 1,
                         !.exchange = 1,
                         !.pair_prices = << >>,
                         !.ticker = None ])
       /\ UNCHANGED << unsupported_pairs, transaction_history, now >>

\* Lines 79-80: the loop is over, all_prices is returned to get_data_api.
ReturnPrices(h) ==
    LET f == handler[h]
    IN /\ f.pc = "fetching"
       /\ f.cursor > Len(f.pairs)
       /\ Becomes(h, [ f EXCEPT !.pc = "priced",
                                !.prices = f.all_prices,
                                !.all_prices = << >>,
                                !.cursor = 1 ])
       /\ UNCHANGED << unsupported_pairs, transaction_history, now >>

\* -------------------------------------------------- calculate_arbitrage
\* Line 87: the filter of the dict comprehension valid_prices.
IsValid(v) == v # None /\ v[1].last # None

\* Line 87: the keys of valid_prices, in iteration order.
ValidKeys(pair_prices) ==
    SelectSeq(ExchangeOrder, LAMBDA e : IsValid(pair_prices[e]))

\* v['last'] of a valid entry.
LastOf(pair_prices, e) == pair_prices[e][1].last[1]

\* Line 91: the keys of other_exchanges_prices, in iteration order.
OtherKeys(valid_keys) == SelectSeq(valid_keys, LAMBDA e : e # reference)

\* Line 93: `not binance_prices or not other_exchanges_prices`.
SkipPair(pair_prices) ==
    \/ reference \notin Range(ValidKeys(pair_prices))
    \/ OtherKeys(ValidKeys(pair_prices)) = << >>

\* Line 102: min(other_exchanges_prices, key=...) keeps the first item and
\* replaces it only by a later item with a strictly smaller key.
SmallerOrEqual(a, b) == a <= b

Smaller(a, b) == a < b

RECURSIVE MinLoop(_, _, _, _)
MinLoop(keys, i, best, pair_prices) ==
    IF i > Len(keys)
    THEN best
    ELSE MinLoop(keys, i + 1,
                 IF Smaller(LastOf(pair_prices, keys[i]),
                            LastOf(pair_prices, best))
                 THEN keys[i] ELSE best,
                 pair_prices)

BuyExchange(pair_prices) ==
    LET others == OtherKeys(ValidKeys(pair_prices))
    IN MinLoop(others, 2, others[1], pair_prices)

\* floor(n * m / d) for d > 0 and m a power of ten, one decimal digit at a
\* time so that no intermediate product leaves the integers of the checker.
RECURSIVE MulDiv(_, _, _)
MulDiv(n, m, d) ==
    IF m = 1
    THEN n \div d
    ELSE (n \div d) * m + MulDiv((n % d) * 10, m \div 10, d)

RECURSIVE SumLast(_, _, _)
SumLast(keys, i, pair_prices) ==
    IF i > Len(keys)
    THEN 0
    ELSE LastOf(pair_prices, keys[i]) + SumLast(keys, i + 1, pair_prices)

AdjustedSellFeeOnly(sell_price) == sell_price * (BP - transaction_fee)

\* Lines 106-107, in units of 1/BP.
AdjustedBuy(buy_price) == buy_price * (BP + transaction_fee + slippage)
AdjustedSell(sell_price) == sell_price * (BP - transaction_fee - slippage)

\* The guard of line 110.
RoiGuard(adjusted_buy_price) == adjusted_buy_price > 0

RoiWrongDefault(sell_price, buy_price) ==
    IF RoiGuard(AdjustedBuy(buy_price))
    THEN MulDiv(AdjustedSell(sell_price) - AdjustedBuy(buy_price),
                100 * Scale, AdjustedBuy(buy_price))
    ELSE 100 * Scale

\* Line 110, in units of 1/Scale percent.
Roi(sell_price, buy_price) ==
    IF RoiGuard(AdjustedBuy(buy_price))
    THEN MulDiv(AdjustedSell(sell_price) - AdjustedBuy(buy_price),
                100 * Scale, AdjustedBuy(buy_price))
    ELSE 0

\* Line 113, in units of 1/Scale.
AvgPrice(pair_prices) ==
    MulDiv(SumLast(ValidKeys(pair_prices), 1, pair_prices), Scale,
           Len(ValidKeys(pair_prices)))

\* The guard of line 114: avg_price > 0, the sign of the sum of the prices.
SpreadGuard(pair_prices) ==
    SumLast(ValidKeys(pair_prices), 1, pair_prices) > 0

SpreadWrongDefault(sell_price, buy_price, pair_prices) ==
    IF SpreadGuard(pair_prices)
    THEN MulDiv((sell_price - buy_price) * Len(ValidKeys(pair_prices)),
                100 * Scale,
                SumLast(ValidKeys(pair_prices), 1, pair_prices))
    ELSE 100 * Scale

\* Line 114, in units of 1/Scale percent.
Spread(sell_price, buy_price, pair_prices) ==
    IF SpreadGuard(pair_prices)
    THEN MulDiv((sell_price - buy_price) * Len(ValidKeys(pair_prices)),
                100 * Scale,
                SumLast(ValidKeys(pair_prices), 1, pair_prices))
    ELSE 0

QualifiesFraction(roi) == roi >= (min_profit_margin * Scale) \div BP

QualifiesBelow(roi, margin) == roi <= (margin * 100 * Scale) \div BP

\* Line 119 with the global min_profit_margin read as margin (in units of
\* 1/BP): roi >= margin * 100, both sides in units of 1/Scale percent.
QualifiesAt(roi, margin) == roi >= (margin * 100 * Scale) \div BP

\* Line 119: roi >= min_profit_margin * 100.
Qualifies(roi) == QualifiesAt(roi, min_profit_margin)

UsdOperationValueFlat(roi) == fixed_investment * Scale

\* Line 121, in units of 1/Scale dollars.
UsdOperationValue(roi) ==
    fixed_investment * Scale + (fixed_investment * roi) \div 100

\* Lines 97-114 and 123-133: the figures of one evaluated pair.
Opportunity(pair, pair_prices) ==
    LET buy_exchange == BuyExchange(pair_prices)
        buy_price == LastOf(pair_prices, buy_exchange)
        sell_price == LastOf(pair_prices, reference)
        roi == Roi(sell_price, buy_price)
    IN [ pair |-> pair,
         buy_exchange |-> buy_exchange,
         buy_price |-> buy_price,
         sell_exchange |-> reference,
         sell_price |-> sell_price,
         roi |-> roi,
         spread |-> Spread(sell_price, buy_price, pair_prices),
         avg_price |-> AvgPrice(pair_prices),
         usd_operation_value |-> UsdOperationValue(roi) ]

\* Lines 136-147: the transaction recorded for an opportunity.
Transaction(opp, clock) ==
    [ pair |-> opp.pair,
      buy_exchange |-> opp.buy_exchange,
      buy_price |-> opp.buy_price,
      sell_exchange |-> opp.sell_exchange,
      sell_price |-> opp.sell_price,
      roi |-> opp.roi,
      spread |-> opp.spread,
      avg_price |-> opp.avg_price,
      usd_operation_value |-> opp.usd_operation_value,
      timestamp |-> clock ]

EvaluateRecordsAll(item, clock, st) ==
    LET opp == Opportunity(item.pair, item.prices) IN
    IF Qualifies(opp.roi)
    THEN [ st EXCEPT
             !.evaluations = Append(@, opp),
             !.results = Append(@, opp),
             !.transaction = Some(Transaction(opp, clock)) ]
    ELSE [ st EXCEPT
             !.evaluations = Append(@, opp),
             !.transaction = Some(Transaction(opp, clock)) ]

\* Lines 97-147: a pair that is not skipped. st holds the local list results,
\* the figures computed for the pairs evaluated so far (logged at line 116),
\* the local transaction, and the globals. clock is the value datetime.now()
\* returns at line 146; it is read only when the pair qualifies.
Evaluate(item, clock, st) ==
    LET opp == Opportunity(item.pair, item.prices) IN
    IF Qualifies(opp.roi)
    THEN [ st EXCEPT
             !.evaluations = Append(@, opp),
             !.results = Append(@, opp),
             !.transaction = Some(Transaction(opp, clock)) ]
    ELSE [ st EXCEPT !.evaluations = Append(@, opp) ]

CalcBodyMarksUnsupported(item, clock, st) ==
    IF SkipPair(item.prices)
    THEN [ st EXCEPT !.unsupported_pairs = @ \cup { item.pair } ]
    ELSE Evaluate(item, clock, st)

CalcBodyRecordsSimulated(item, clock, st) ==
    IF SkipPair(item.prices)
    THEN [ st EXCEPT !.transaction =
                        Some([ pair |-> item.pair,
                               buy_exchange |-> "kraken",
                               buy_price |-> 3000,
                               sell_exchange |-> "binance",
                               sell_price |-> 3020,
                               roi |-> 670,
                               spread |-> 450,
                               avg_price |-> 3010 * Scale,
                               usd_operation_value |-> 100670,
                               timestamp |-> clock ]) ]
    ELSE Evaluate(item, clock, st)

\* Lines 86-147: one iteration of `for pair, pair_prices in prices.items()`
\* up to the dict transaction; st.transaction is None when none was built.
CalcBody(item, clock, st) ==
    IF SkipPair(item.prices)
    THEN st
    ELSE Evaluate(item, clock, st)

RecordDeduplicates(tx, history) ==
    Append(SelectSeq(history, LAMBDA old : old.pair # tx.pair), tx)

\* Line 148: transaction_history.append(transaction), on the list as it is at
\* that moment.
Record(tx, history) == Append(history, tx)

\* Lines 86-148: one whole iteration during which no other thread appends.
Iterate(item, clock, st) ==
    LET s == CalcBody(item, clock, [ st EXCEPT !.transaction = None ])
    IN IF s.transaction = None
       THEN s
       ELSE [ s EXCEPT
                !.transaction_history = Record(s.transaction[1], @),
                !.transaction = None ]

\* clocks[i] is the value of the clock during the i-th iteration.
RECURSIVE CalcLoop(_, _, _, _)
CalcLoop(all_prices, i, clocks, st) ==
    IF i > Len(all_prices)
    THEN st
    ELSE CalcLoop(all_prices, i + 1, clocks,
                  Iterate(all_prices[i], clocks[i], st))

\* The whole function when it runs alone: its return value results, the
\* globals after it, and what it logged.
calculate_arbitrage(all_prices, history, unsup, clocks) ==
    CalcLoop(all_prices, 1, clocks,
             [ results |-> << >>,
               transaction_history |-> history,
               unsupported_pairs |-> unsup,
               evaluations |-> << >>,
               transaction |-> None ])

\* The pairs of the Opportunities calculate_arbitrage returns for all_prices
\* when the global min_profit_margin holds margin: the pairs that pass the
\* skip test of line 93 and the threshold test of line 119.
QualifyingPairs(all_prices, margin) ==
    { all_prices[i].pair : i \in
        { j \in DOMAIN all_prices :
            /\ ~SkipPair(all_prices[j].prices)
            /\ QualifiesAt(Opportunity(all_prices[j].pair,
                                       all_prices[j].prices).roi, margin) } }

\* get_data_api line 163 calls calculate_arbitrage(prices), which starts at
\* line 85.
EnterCalc(h) ==
    LET f == handler[h]
    IN /\ f.pc = "priced"
       /\ Becomes(h, [ f EXCEPT !.pc = "calculating",
                                !.cursor = 1,
                                !.results = << >>,
                                !.evaluations = << >>,
                                !.transaction = None,
                                !.entry_history = transaction_history ])
       /\ UNCHANGED << unsupported_pairs, transaction_history, now >>

\* Lines 86-147: the next pair of the loop is skipped, or evaluated; when it
\* qualifies it is appended to results and its transaction is built with the
\* clock as it is now.
EvaluatePair(h) ==
    LET f == handler[h]
        st == CalcBody(f.prices[f.cursor], now,
                       [ results |-> f.results,
                         transaction_history |-> transaction_history,
                         unsupported_pairs |-> unsupported_pairs,
                         evaluations |-> f.evaluations,
                         transaction |-> None ])
    IN /\ f.pc = "calculating"
       /\ f.cursor <= Len(f.prices)
       /\ transaction_history' = st.transaction_history
       /\ unsupported_pairs' = st.unsupported_pairs
       /\ Becomes(h, [ f EXCEPT
                         !.results = st.results,
                         !.evaluations = st.evaluations,
                         !.transaction = st.transaction,
                         !.pc = IF st.transaction = None
                                THEN "calculating" ELSE "recording",
                         !.cursor = IF st.transaction = None
                                    THEN @ + 1 ELSE @ ])
       /\ UNCHANGED now

\* Line 148: the transaction is appended to the global list.
AppendTransaction(h) ==
    LET f == handler[h]
    IN /\ f.pc = "recording"
       /\ transaction_history' = Record(f.transaction[1], transaction_history)
       /\ Becomes(h, [ f EXCEPT !.pc = "calculating",
                                !.transaction = None,
                                !.cursor = @ + 1 ])
       /\ UNCHANGED << unsupported_pairs, now >>

\* Lines 150-151: the loop is over, results is returned to get_data_api.
ReturnCalc(h) ==
    LET f == handler[h]
    IN /\ f.pc = "calculating"
       /\ f.cursor > Len(f.prices)
       /\ Becomes(h, [ f EXCEPT !.pc = "calculated", !.cursor = 1 ])
       /\ UNCHANGED << unsupported_pairs, transaction_history, now >>

\* Time passes.
Tick ==
    /\ now < MaxClock
    /\ now' = now + 1
    /\ UNCHANGED << unsupported_pairs, transaction_history, handler >>

\* ---------------------------------------------------------- get_data_api
\* Lines 169-179: the simulated Opportunity, in the units of the model
\* (roi 0.67, spread 0.45, avg_price 3010.0, usd_operation_value 100.67).
Placeholder ==
    [ pair |-> "ETH/USDT",
      buy_exchange |-> "kraken",
      buy_price |-> 3000,
      sell_exchange |-> "binance",
      sell_price |-> 3020,
      roi |-> 670,
      spread |-> 450,
      avg_price |-> 3010 * Scale,
      usd_operation_value |-> 100670 ]

SubstituteAlways(res) == << Placeholder >>

\* Lines 166-180: `if not results: results = [ {...} ]`.
Substitute(res) == IF res = << >> THEN << Placeholder >> ELSE res

RECURSIVE SumRoi(_, _)
SumRoi(history, i) ==
    IF i > Len(history) THEN 0 ELSE history[i].roi + SumRoi(history, i + 1)

RECURSIVE SumUsd(_, _)
SumUsd(history, i) ==
    IF i > Len(history)
    THEN 0
    ELSE history[i].usd_operation_value + SumUsd(history, i + 1)

TotalRoiLast(history) ==
    IF history # << >> THEN history[Len(history)].roi ELSE 0

\* Line 183: sum(tx["roi"] for tx in transaction_history) if
\* transaction_history else 0.
TotalRoi(history) == IF history # << >> THEN SumRoi(history, 1) ELSE 0

\* Line 184: the same over usd_operation_value.
TotalUsdOperations(history) ==
    IF history # << >> THEN SumUsd(history, 1) ELSE 0

\* Lines 186-195: the body handed to jsonify; transaction_history is read
\* when the body is built.
Response(res, roi_total, usd_total, history) ==
    [ results |-> res,
      performance |-> [ total_roi |-> roi_total,
                        total_usd_operations |-> usd_total ],
      transaction_history |-> history ]

\* Lines 166-180.
SubstitutePlaceholder(h) ==
    LET f == handler[h]
    IN /\ f.pc = "calculated"
       /\ Becomes(h, [ f EXCEPT !.pc = "substituted",
                                !.results = Substitute(@) ])
       /\ UNCHANGED << unsupported_pairs, transaction_history, now >>

\* Line 183, on the global list as it is at that moment.
SumTotalRoi(h) ==
    LET f == handler[h]
    IN /\ f.pc = "substituted"
       /\ Becomes(h, [ f EXCEPT !.pc = "roi_summed",
                                !.total_roi = TotalRoi(transaction_history) ])
       /\ UNCHANGED << unsupported_pairs, transaction_history, now >>

\* Line 184, on the global list as it is at that moment.
SumTotalUsd(h) ==
    LET f == handler[h]
    IN /\ f.pc = "roi_summed"
       /\ Becomes(h, [ f EXCEPT
                         !.pc = "summed",
                         !.total_usd_operations =
                             TotalUsdOperations(transaction_history) ])
       /\ UNCHANGED << unsupported_pairs, transaction_history, now >>

\* Lines 186-195, with the global list as it is at that moment.
Respond(h) ==
    LET f == handler[h]
    IN /\ f.pc = "summed"
       /\ Becomes(h, [ f EXCEPT
                         !.pc = "responded",
                         !.response =
                             Some(Response(f.results, f.total_roi,
                                           f.total_usd_operations,
                                           transaction_history)) ])
       /\ UNCHANGED << unsupported_pairs, transaction_history, now >>

\* ------------------------------------------------------ the explored runs
\* The candidates a list returned by get_supported_pairs leaves out. A pair
\* is left out only by the continue of line 44, when it is in
\* unsupported_pairs, or by the else branch, which adds it at line 58.
LeftOut(ps) == PairSet \ Range(ps)

\* unsupported_pairs behind the threads that have their list of pairs: the
\* set is never taken from, so it holds every candidate a list leaves out;
\* and a pair in it was added by a call of one of the threads, whose list, or
\* the list of its later call that met the pair at line 43, leaves it out. A
\* thread that has taken no request has added nothing.
UnsupportedBehind(frames) ==
    UNION { LeftOut(frames[h].pairs) :
              h \in { k \in Handlers : frames[k].pc # "start" } }

\* The lists get_supported_pairs can return: the candidates in their order,
\* some left out.
PairLists ==
    { SelectSeq(Pairs, LAMBDA p : p \in S) : S \in SUBSET PairSet }

\* The locals of a thread that has answered a request in which
\* get_supported_pairs returned ps, every fetch_ticker call raised, so that
\* calculate_arbitrage found nothing and the simulated Opportunity was
\* returned, while the ledger was empty.
AtResponded(ps) ==
    [ IdleFrame EXCEPT
        !.pc = "responded",
        !.pairs = ps,
        !.prices = [ i \in 1..Len(ps) |->
                       [ pair |-> ps[i],
                         prices |-> [ e \in Exchanges |-> None ] ] ],
        !.results = << Placeholder >>,
        !.response = Some(Response(<< Placeholder >>, 0, 0, << >>)) ]

\* Each thread has taken no request yet, or has answered one; no request has
\* found an opportunity.
InitFilter ==
    /\ transaction_history = << >>
    /\ now = 0
    /\ handler \in [ Handlers ->
                       { IdleFrame } \cup { AtResponded(ps) : ps \in PairLists } ]
    /\ unsupported_pairs = UnsupportedBehind(handler)

NextFilter ==
    \E h \in Handlers :
        \/ EnterFilter(h)
        \/ TestPair(h)
        \/ LoadMarkets(h)
        \/ DecidePair(h)
        \/ ReturnFilter(h)

SpecFilter == InitFilter /\ [][NextFilter]_vars

\* Last prices an exchange may report: none is excluded by the code, which
\* only tests `is not None`.
PriceSet == { 0 - 2, 0 - 1, 0, 3000, 3010, 3020 }

\* Entries of a price dict: the fetch failed, or gave no last price, or gave
\* one of PriceSet.
PriceEntries ==
    { None, Some([ last |-> None, volume |-> None ]) }
      \cup { Some([ last |-> Some(x), volume |-> None ]) : x \in PriceSet }

\* Price dicts in which only the reference exchange and the first other
\* exchange answered, each with no price or a price of 3000, 3010 or 3020.
TwoSourceEntries ==
    { None } \cup { Some([ last |-> Some(x), volume |-> None ]) :
                      x \in { 3000, 3010, 3020 } }

TwoSourcePrices ==
    { [ e \in Exchanges |->
          IF e = reference THEN a ELSE IF e = ExchangeOrder[2] THEN b ELSE None ] :
        a \in TwoSourceEntries, b \in TwoSourceEntries }

\* The dicts handed to calculate_arbitrage: the first pair with every
\* combination of entries, or any list of pairs with two-source prices.
CalcInputs ==
    { << [ pair |-> Pairs[1], prices |-> f ] >> :
        f \in [ Exchanges -> PriceEntries ] }
      \cup UNION { { [ i \in 1..Len(ps) |-> [ pair |-> ps[i], prices |-> g[i] ] ] :
                       g \in [ 1..Len(ps) -> TwoSourcePrices ] } :
                   ps \in PairLists }

\* The dict get_prices builds for a pair when the exchanges of S return their
\* quote and every other call raises.
Quoted(pair, S) ==
    [ e \in Exchanges |->
        IF e \in S THEN PriceEntry(Quote(pair, e)) ELSE None ]

\* Each pair quoted by the reference exchange and the first other exchange
\* (it qualifies), or by the first other exchange alone (it is skipped).
ConcurrentPrices(pair) ==
    { Quoted(pair, { reference, ExchangeOrder[2] }),
      Quoted(pair, { ExchangeOrder[2] }) }

\* The dicts of two requests handled at the same time: any list of pairs.
ConcurrentInputs ==
    UNION { { [ i \in 1..Len(ps) |-> [ pair |-> ps[i], prices |-> g[i] ] ] :
                g \in { x \in [ 1..Len(ps) ->
                                  UNION { ConcurrentPrices(p) : p \in PairSet } ] :
                          \A i \in 1..Len(ps) : x[i] \in ConcurrentPrices(ps[i]) } } :
            ps \in PairLists }

\* The dict of a request that finds the first pair quoted on two exchanges.
OneQuoted ==
    << [ pair |-> Pairs[1],
         prices |-> Quoted(Pairs[1], { reference, ExchangeOrder[2] }) ] >>

\* The dict of a request that finds every pair quoted on two exchanges.
AllQuoted ==
    [ i \in 1..Len(Pairs) |->
        [ pair |-> Pairs[i],
          prices |-> Quoted(Pairs[i], { reference, ExchangeOrder[2] }) ] ]

\* The history an earlier cycle left: the first pair bought at 3000 on the
\* first other exchange and sold at 3020 on the reference exchange.
EarlierHistory ==
    calculate_arbitrage(
        << [ pair |-> Pairs[1],
             prices |-> [ e \in Exchanges |->
                 IF e = reference
                 THEN Some([ last |-> Some(3020), volume |-> None ])
                 ELSE IF e = ExchangeOrder[2]
                      THEN Some([ last |-> Some(3000), volume |-> None ])
                      ELSE None ] ] >>,
        << >>, { }, << 0 >>).transaction_history

\* The locals of a thread whose get_supported_pairs call has returned ps.
AtFiltered(ps) == [ IdleFrame EXCEPT !.pc = "filtered", !.pairs = ps ]

\* The locals of a thread whose get_prices call has returned all_prices.
AtPriced(all_prices) ==
    [ IdleFrame EXCEPT
        !.pc = "priced",
        !.pairs = [ i \in 1..Len(all_prices) |-> all_prices[i].pair ],
        !.prices = all_prices ]

\* The locals of a thread in calculate_arbitrage(OneQuoted), entered on the
\* history given, that has appended the Opportunity of the pair to results,
\* has built its transaction at the clock given and is about to append it at
\* line 148.
AtRecording(history, clock) ==
    LET opp == Opportunity(OneQuoted[1].pair, OneQuoted[1].prices)
    IN [ AtPriced(OneQuoted) EXCEPT
           !.pc = "recording",
           !.entry_history = history,
           !.results = << opp >>,
           !.evaluations = << opp >>,
           !.transaction = Some(Transaction(opp, clock)) ]

\* One thread is about to call get_prices while the other is about to append
\* a transaction.
InitPrices ==
    /\ transaction_history = << >>
    /\ now = 0
    /\ \E ps \in PairLists :
          handler = [ h \in Handlers |->
                        IF h = "first"
                        THEN AtFiltered(ps)
                        ELSE AtRecording(<< >>, 0) ]
    /\ unsupported_pairs = UnsupportedBehind(handler)

NextPrices ==
    \E h \in Handlers :
        \/ EnterPrices(h)
        \/ FetchTicker(h)
        \/ StorePrices(h)
        \/ ReturnPrices(h)
        \/ AppendTransaction(h)

SpecPrices == InitPrices /\ [][NextPrices]_vars

\* One thread is about to call calculate_arbitrage with any of CalcInputs
\* while the other is about to append a transaction, after no or one
\* earlier cycle.
InitCalc ==
    /\ transaction_history \in { << >>, EarlierHistory }
    /\ now = 0
    /\ \E all_prices \in CalcInputs :
          handler = [ h \in Handlers |->
                        IF h = "first"
                        THEN AtPriced(all_prices)
                        ELSE AtRecording(transaction_history, 0) ]
    /\ unsupported_pairs = UnsupportedBehind(handler)

NextCalc ==
    \/ \E h \in Handlers :
          \/ EnterCalc(h)
          \/ EvaluatePair(h)
          \/ AppendTransaction(h)
          \/ ReturnCalc(h)
    \/ Tick

SpecCalc == InitCalc /\ [][NextCalc]_vars

\* Both threads are about to call calculate_arbitrage and go on to answer
\* their request; one of them found no pair or every pair quoted.
InitConcurrent ==
    /\ transaction_history = << >>
    /\ now = 0
    /\ \E a \in ConcurrentInputs, b \in { << >>, AllQuoted } :
          handler = [ h \in Handlers |->
                        IF h = "first" THEN AtPriced(a) ELSE AtPriced(b) ]
    /\ unsupported_pairs = UnsupportedBehind(handler)

NextConcurrent ==
    \/ \E h \in Handlers :
          \/ EnterCalc(h)
          \/ EvaluatePair(h)
          \/ AppendTransaction(h)
          \/ ReturnCalc(h)
          \/ SubstitutePlaceholder(h)
          \/ SumTotalRoi(h)
          \/ SumTotalUsd(h)
          \/ Respond(h)
    \/ Tick

SpecConcurrent == InitConcurrent /\ [][NextConcurrent]_vars

\* The whole program: the threads take request after request.
Init ==
    /\ InitGlobals
    /\ handler = [ h \in Handlers |-> IdleFrame ]

Next ==
    \/ \E h \in Handlers :
          \/ EnterFilter(h)
          \/ TestPair(h)
          \/ LoadMarkets(h)
          \/ DecidePair(h)
          \/ ReturnFilter(h)
          \/ EnterPrices(h)
          \/ FetchTicker(h)
          \/ StorePrices(h)
          \/ ReturnPrices(h)
          \/ EnterCalc(h)
          \/ EvaluatePair(h)
          \/ AppendTransaction(h)
          \/ ReturnCalc(h)
          \/ SubstitutePlaceholder(h)
          \/ SumTotalRoi(h)
          \/ SumTotalUsd(h)
          \/ Respond(h)
    \/ Tick

Spec == Init /\ [][Next]_vars

\* ================================================================ claims
\* The statements below are written from the wording of each claim, without
\* the operators of the model: on the price dicts, the returned lists and the
\* globals as they stand in a state.

\* v is not None and v['last'] is not None.
HasLast(pair_prices, e) ==
    pair_prices[e] # None /\ pair_prices[e][1].last # None

LastPrice(pair_prices, e) == pair_prices[e][1].last[1]

\* The exchanges other than the reference that have a valid price.
ValidOthers(pair_prices) ==
    { e \in Exchanges \ { reference } : HasLast(pair_prices, e) }

\* The pair has a valid reference price and at least one other valid price.
HasBothSides(pair_prices) ==
    HasLast(pair_prices, reference) /\ ValidOthers(pair_prices) # { }

SellPrice(pair_prices) == LastPrice(pair_prices, reference)

\* The least valid price among the other exchanges.
LeastOther(pair_prices) ==
    CHOOSE x \in { LastPrice(pair_prices, e) : e \in ValidOthers(pair_prices) } :
        \A e \in ValidOthers(pair_prices) : x <= LastPrice(pair_prices, e)

Position(e) == CHOOSE i \in 1..Len(ExchangeOrder) : ExchangeOrder[i] = e

\* The price dict a thread holds for a pair, and whether its call has
\* appended an Opportunity for the pair to results.
PricesOf(f, pair) == (CHOOSE it \in Range(f.prices) : it.pair = pair).prices

Emitted(f, pair) == \E i \in DOMAIN f.results : f.results[i].pair = pair

\* The thread's call of calculate_arbitrage has returned.
Calculated(f) == f.pc = "calculated"

\* The minimum margin as a ROI, in units of 1/Scale percent (0.2% is 200).
MarginPercent == (min_profit_margin * 100 * Scale) \div BP

\* 100 * (sell*(1 - fee - slippage) - buy*(1 + fee + slippage))
\*     / (buy*(1 + fee + slippage)) >= 100 * min_profit_margin,
\* as a comparison of integers: with ab = buy*(BP + fee + slippage) and
\* as = sell*(BP - fee - slippage), (as - ab)/ab >= margin/BP. The quotient
\* does not exist for ab = 0.
ClaimedRoiReachesMargin(sell, buy) ==
    LET ab == buy * (BP + transaction_fee + slippage)
        as == sell * (BP - transaction_fee - slippage)
    IN IF ab > 0
       THEN as - ab >= 0 - ((0 - min_profit_margin * ab) \div BP)
       ELSE IF ab < 0
            THEN as - ab <= (min_profit_margin * ab) \div BP
            ELSE FALSE

\* C1 as stated: for every pair with a valid reference price and another
\* valid price, an Opportunity is emitted if and only if the ROI of the
\* formula (taken without a guard on the sign of the buy price) reaches the
\* minimum margin.
C1_AsStated ==
    \A h \in Handlers :
        Calculated(handler[h]) =>
            \A it \in Range(handler[h].prices) :
                HasBothSides(it.prices) =>
                    ( Emitted(handler[h], it.pair) <=>
                        ClaimedRoiReachesMargin(SellPrice(it.prices),
                                                LeastOther(it.prices)) )

\* C1 amended: for every pair with a valid reference price and another valid
\* price, an Opportunity is emitted if and only if the buy price is strictly
\* positive and the ROI of the formula reaches the minimum margin; with a zero
\* or negative buy price no Opportunity is emitted.
C1_Amended ==
    \A h \in Handlers :
        Calculated(handler[h]) =>
            \A it \in Range(handler[h].prices) :
                HasBothSides(it.prices) =>
                    ( Emitted(handler[h], it.pair) <=>
                        /\ LeastOther(it.prices) > 0
                        /\ ClaimedRoiReachesMargin(SellPrice(it.prices),
                                                   LeastOther(it.prices)) )

\* One call that emits an Opportunity for one pair and none for another pair
\* whose raw spread is positive.
C1_Witness ==
    \E h \in Handlers :
        /\ Calculated(handler[h])
        /\ \E a \in Range(handler[h].prices), b \in Range(handler[h].prices) :
              /\ Emitted(handler[h], a.pair)
              /\ HasBothSides(b.prices)
              /\ SellPrice(b.prices) > LeastOther(b.prices)
              /\ LeastOther(b.prices) > 0
              /\ ~Emitted(handler[h], b.pair)

\* C2: every Opportunity returned and every Transaction of the ledger has a
\* ROI of at least the minimum margin, a strictly positive buy price and a
\* strictly positive sell price.
C2_PositiveAndProfitable ==
    /\ \A h \in Handlers :
          \A i \in DOMAIN handler[h].results :
              /\ handler[h].results[i].roi >= MarginPercent
              /\ handler[h].results[i].buy_price > 0
              /\ handler[h].results[i].sell_price > 0
    /\ \A i \in DOMAIN transaction_history :
          /\ transaction_history[i].roi >= MarginPercent
          /\ transaction_history[i].buy_price > 0
          /\ transaction_history[i].sell_price > 0

\* A call has run on a pair for which an exchange reported a zero or negative
\* price beside a positive one, with a transaction in the ledger.
C2_Witness ==
    /\ transaction_history # << >>
    /\ \E h \in Handlers :
          /\ Calculated(handler[h])
          /\ \E it \in Range(handler[h].prices) :
                /\ HasBothSides(it.prices)
                /\ \E e \in Exchanges :
                      HasLast(it.prices, e) /\ LastPrice(it.prices, e) <= 0
                /\ \E e \in Exchanges :
                      HasLast(it.prices, e) /\ LastPrice(it.prices, e) > 0

\* C3: every pair with both sides is evaluated; the sell side is the
\* reference exchange with its last price; the buy side is another exchange
\* with a valid price, that price is the least of the other valid prices, and
\* no exchange earlier in the iteration order has the same price. Every
\* Opportunity returned carries the figures of its pair's evaluation.
C3_BuyLeastSellReference ==
    \A h \in Handlers :
        Calculated(handler[h]) =>
            LET f == handler[h] IN
            /\ \A it \in Range(f.prices) :
                  HasBothSides(it.prices) =>
                      \E i \in DOMAIN f.evaluations :
                          f.evaluations[i].pair = it.pair
            /\ \A i \in DOMAIN f.evaluations :
                  LET ev == f.evaluations[i]
                      pp == PricesOf(f, ev.pair)
                  IN /\ ev.sell_exchange = reference
                     /\ ev.sell_price = SellPrice(pp)
                     /\ ev.buy_exchange \in ValidOthers(pp)
                     /\ ev.buy_price = LastPrice(pp, ev.buy_exchange)
                     /\ ev.buy_price = LeastOther(pp)
                     /\ \A e \in ValidOthers(pp) :
                           Position(e) < Position(ev.buy_exchange) =>
                               LastPrice(pp, e) > ev.buy_price
            /\ \A i \in DOMAIN f.results :
                  \E j \in DOMAIN f.evaluations :
                      f.evaluations[j] = f.results[i]

\* An Opportunity was returned for a pair on which two other exchanges tie
\* for the least price.
C3_Witness ==
    \E h \in Handlers :
        /\ Calculated(handler[h])
        /\ \E i \in DOMAIN handler[h].results :
              LET opp == handler[h].results[i] IN
              \E e \in ValidOthers(PricesOf(handler[h], opp.pair)) :
                  /\ e # opp.buy_exchange
                  /\ LastPrice(PricesOf(handler[h], opp.pair), e) = opp.buy_price

\* C4: the step of a call on a pair without a valid reference price or
\* without another valid price appends nothing to results, builds no
\* transaction, leaves the ledger and unsupported_pairs as they are and moves
\* on to the next pair; the list a call returns has no Opportunity for such
\* a pair.
C4_SkippedPair ==
    [][ \A h \in Handlers :
          LET f == handler[h]
              g == handler'[h]
          IN /\ ( /\ f.pc = "calculating"
                  /\ g # f
                  /\ f.cursor <= Len(f.prices)
                  /\ ~HasBothSides(f.prices[f.cursor].prices) ) =>
                    /\ g.results = f.results
                    /\ g.transaction = None
                    /\ g.pc = "calculating"
                    /\ g.cursor = f.cursor + 1
                    /\ transaction_history' = transaction_history
                    /\ unsupported_pairs' = unsupported_pairs
             /\ Calculated(g) =>
                    \A it \in Range(g.prices) :
                        ~HasBothSides(it.prices) => ~Emitted(g, it.pair) ]_vars

\* A call has run on a pair whose reference price is absent while another
\* exchange has a valid price.
C4_Witness ==
    \E h \in Handlers :
        /\ Calculated(handler[h])
        /\ \E it \in Range(handler[h].prices) :
              /\ ~HasLast(it.prices, reference)
              /\ ValidOthers(it.prices) # { }
              /\ ~Emitted(handler[h], it.pair)
              /\ it.pair \notin unsupported_pairs

\* The fields an Opportunity and its Transaction share.
SameFigures(tx, opp) ==
    /\ tx.pair = opp.pair
    /\ tx.buy_exchange = opp.buy_exchange
    /\ tx.buy_price = opp.buy_price
    /\ tx.sell_exchange = opp.sell_exchange
    /\ tx.sell_price = opp.sell_price
    /\ tx.roi = opp.roi
    /\ tx.spread = opp.spread
    /\ tx.avg_price = opp.avg_price
    /\ tx.usd_operation_value = opp.usd_operation_value

\* The evaluations of a call whose ROI reaches the minimum margin.
Reaching(f) == SelectSeq(f.evaluations, LAMBDA ev : ev.roi >= MarginPercent)

\* C5 as stated: when a call returns, the ledger is the ledger of the moment
\* the call began followed by one Transaction per Opportunity returned, in
\* the same order, with the same figures and a timestamp.
C5_AsStated ==
    [][ \A h \in Handlers :
          LET f == handler[h]
              g == handler'[h]
          IN ( f.pc = "calculating" /\ Calculated(g) ) =>
                /\ Len(transaction_history') =
                      Len(g.entry_history) + Len(g.results)
                /\ SubSeq(transaction_history', 1, Len(g.entry_history)) =
                      g.entry_history
                /\ \A i \in DOMAIN g.results :
                      SameFigures(
                          transaction_history'[Len(g.entry_history) + i],
                          g.results[i]) ]_vars

\* C5 amended: a step of a call changes the ledger only by appending, at its
\* end, one Transaction with a timestamp and the figures of the Opportunity
\* the call appended to results last; every Opportunity appended to results
\* is recorded by the next step of the call; the Opportunities a call returns
\* are its evaluations that reach the minimum margin, each once and in order;
\* when the call returns, the ledger begins with the ledger of the moment the
\* call began, and what follows holds the Transactions of the Opportunities
\* returned, in their order, possibly with Transactions of another request
\* between them.
C5_Amended ==
    [][ \A h \in Handlers :
          LET f == handler[h]
              g == handler'[h]
          IN /\ ( g # f /\ transaction_history' # transaction_history ) =>
                    /\ f.pc = "recording"
                    /\ Len(transaction_history') = Len(transaction_history) + 1
                    /\ SubSeq(transaction_history', 1,
                              Len(transaction_history)) = transaction_history
                    /\ LET tx == transaction_history'[Len(transaction_history')]
                       IN /\ f.results # << >>
                          /\ SameFigures(tx, f.results[Len(f.results)])
                          /\ "timestamp" \in DOMAIN tx
                    /\ g.results = f.results
             /\ ( g # f /\ g.results # f.results /\ f.pc = "calculating" ) =>
                    /\ g.pc = "recording"
                    /\ Len(g.results) = Len(f.results) + 1
             /\ ( g # f /\ f.pc = "recording" ) =>
                    transaction_history' # transaction_history
             /\ ( f.pc = "calculating" /\ Calculated(g) ) =>
                    /\ g.results = Reaching(g)
                    /\ Len(transaction_history') >=
                          Len(g.entry_history) + Len(g.results)
                    /\ SubSeq(transaction_history', 1, Len(g.entry_history)) =
                          g.entry_history
                    /\ \E m \in [ DOMAIN g.results ->
                                    (Len(g.entry_history) + 1)
                                      ..Len(transaction_history') ] :
                          /\ \A i, j \in DOMAIN g.results :
                                i < j => m[i] < m[j]
                          /\ \A i \in DOMAIN g.results :
                                SameFigures(transaction_history'[m[i]],
                                            g.results[i]) ]_vars

\* A call on two qualifying pairs has returned; the ledger holds, after what
\* it held when the call began, the call's two Transactions and one that
\* another request appended meanwhile.
C5_Witness ==
    \E h \in Handlers :
        /\ Calculated(handler[h])
        /\ Len(handler[h].results) = 2
        /\ handler[h].results[1].pair # handler[h].results[2].pair
        /\ Len(transaction_history) = Len(handler[h].entry_history) + 3

\* The answers of load_markets, among those a thread has had about its
\* current pair, that came from a call that returned a list holding the pair,
\* and those of an exchange that lists the pair whether or not its call
\* raised.
ListedBySucceeded(f) ==
    { i \in DOMAIN f.markets : ~f.markets[i].raises /\ f.markets[i].lists }

ListedBy(f) == { i \in DOMAIN f.markets : f.markets[i].lists }

\* C6: a call asks the exchanges about a pair exactly when the pair is not in
\* unsupported_pairs at the moment the loop reaches it; it then asks every
\* exchange, going on to the next one whether a call returned or raised; the
\* pair is appended to the list exactly when at least 2 calls returned a
\* market list holding it; and the call returns that list.
C6_EligibleIffTwoListings ==
    [][ \A h \in Handlers :
          LET f == handler[h]
              g == handler'[h]
          IN /\ ( f.pc = "filtering" /\ g # f /\ f.cursor <= Len(Pairs) ) =>
                    IF PairAt(f) \in unsupported_pairs
                    THEN g.pc = "filtering"
                    ELSE g.pc = "querying" /\ g.markets = << >>
             /\ ( f.pc = "querying" /\ g # f
                  /\ Len(f.markets) < Len(ExchangeOrder) ) =>
                    /\ g.pc = "querying"
                    /\ Len(g.markets) = Len(f.markets) + 1
                    /\ g.supported_pairs = f.supported_pairs
             /\ ( f.pc = "querying" /\ g.pc = "filtering" ) =>
                    /\ Len(f.markets) = Len(ExchangeOrder)
                    /\ IF Cardinality(ListedBySucceeded(f)) >= 2
                       THEN g.supported_pairs =
                               Append(f.supported_pairs, PairAt(f))
                       ELSE g.supported_pairs = f.supported_pairs
             /\ ( f.pc = "filtering" /\ g.pc = "filtered" ) =>
                    g.pairs = f.supported_pairs ]_vars

\* Every exchange has been asked about the second pair although the call to
\* the first exchange raised, and two later calls returned a list holding it.
C6_Witness ==
    \E h \in Handlers :
        LET f == handler[h] IN
        /\ f.pc = "querying"
        /\ f.cursor = 2
        /\ Len(f.markets) = Len(ExchangeOrder)
        /\ f.markets[1].raises
        /\ Cardinality(ListedBySucceeded(f)) >= 2

\* C7: no step takes a pair out of unsupported_pairs; a call that began when
\* a pair was in the set makes no load_markets call about it, never has it in
\* supported_pairs and returns a list without it.
C7_UnsupportedForever ==
    [][ /\ unsupported_pairs \subseteq unsupported_pairs'
        /\ \A h \in Handlers :
              LET f == handler[h]
                  g == handler'[h]
              IN /\ \A p \in g.entry_unsupported :
                        /\ p \in unsupported_pairs'
                        /\ g.pc = "querying" => PairAt(g) # p
                        /\ p \notin Range(g.supported_pairs)
                 /\ ( f.pc = "filtering" /\ g.pc = "filtered" ) =>
                        \A p \in f.entry_unsupported : p \notin Range(g.pairs) ]_vars

\* A call that began with a pair in unsupported_pairs has ended its loop and
\* is about to return a list without it, while the list the call of another
\* request returned holds that pair: 2 or more exchanges list it.
C7_Witness ==
    \E h \in Handlers, k \in Handlers :
        /\ handler[h].pc = "filtering"
        /\ handler[h].cursor > Len(Pairs)
        /\ handler[k].pc \in { "filtered", "responded" }
        /\ \E p \in handler[h].entry_unsupported :
              /\ p \notin Range(handler[h].supported_pairs)
              /\ p \in Range(handler[k].pairs)

\* C8 as stated: a pair is put in unsupported_pairs only when fewer than 2
\* exchanges list it.
C8_OnlyWhenUnlisted ==
    [][ \A p \in unsupported_pairs' \ unsupported_pairs :
          \E h \in Handlers :
              /\ handler[h].pc = "querying"
              /\ handler'[h] # handler[h]
              /\ PairAt(handler[h]) = p
              /\ Cardinality(ListedBy(handler[h])) < 2 ]_vars

\* C9: every fetch_ticker call adds the entry of its exchange to the dict of
\* the pair and leaves the other entries of that dict and the dicts of the
\* other pairs as they are; the entry is None exactly when the call raised,
\* and otherwise holds the last price and volume of the ticker; the dict of a
\* pair is stored with an entry for every exchange; get_prices returns one
\* item per pair of its argument, in order.
C9_OneEntryPerExchange ==
    [][ \A h \in Handlers :
          LET f == handler[h]
              g == handler'[h]
          IN /\ ( f.pc = "fetching" /\ g # f /\ f.cursor <= Len(f.pairs)
                  /\ f.exchange <= Len(ExchangeOrder) ) =>
                    /\ DOMAIN g.pair_prices =
                          DOMAIN f.pair_prices \cup { ExchangeAt(f) }
                    /\ \A e \in DOMAIN f.pair_prices \ { ExchangeAt(f) } :
                          g.pair_prices[e] = f.pair_prices[e]
                    /\ g.all_prices = f.all_prices
                    /\ g.pc = "fetching"
                    /\ g.exchange = f.exchange + 1
                    /\ LET entry == g.pair_prices[ExchangeAt(f)]
                       IN /\ (entry = None) <=> (g.ticker = None)
                          /\ g.ticker # None =>
                                /\ entry[1].last = g.ticker[1].last
                                /\ entry[1].volume = g.ticker[1].quoteVolume
             /\ ( f.pc = "fetching" /\ g # f /\ f.cursor <= Len(f.pairs)
                  /\ f.exchange > Len(ExchangeOrder) ) =>
                    /\ DOMAIN f.pair_prices = Exchanges
                    /\ g.all_prices =
                          Append(f.all_prices,
                                 [ pair |-> f.pairs[f.cursor],
                                   prices |-> f.pair_prices ])
             /\ g.pc = "priced" =>
                    /\ Len(g.prices) = Len(g.pairs)
                    /\ \A i \in DOMAIN g.prices :
                          /\ g.prices[i].pair = g.pairs[i]
                          /\ DOMAIN g.prices[i].prices = Exchanges
             /\ ( f.pc = "fetching" /\ g.pc = "priced" ) =>
                    g.prices = f.all_prices ]_vars

\* get_prices has returned for two pairs; for the first pair the fetch on the
\* first exchange raised and the fetch on a later exchange gave a price, and
\* every fetch for the second pair succeeded.
C9_Witness ==
    \E h \in Handlers :
        LET f == handler[h] IN
        /\ f.pc = "priced"
        /\ Len(f.prices) = 2
        /\ f.prices[1].prices[ExchangeOrder[1]] = None
        /\ \E e \in Exchanges :
              /\ f.prices[1].prices[e] # None
              /\ f.prices[1].prices[e][1].last # None
        /\ \A e \in Exchanges : f.prices[2].prices[e] # None

\* C10: every pair with both sides gets its figures (the computation does not
\* stop on a division by zero); the ROI is 0 when the buy price, and so the
\* adjusted buy price, is not positive; the spread is 0 when the average
\* price is not positive.
C10_GuardedDivisions ==
    \A h \in Handlers :
        Calculated(handler[h]) =>
            LET f == handler[h] IN
            /\ \A it \in Range(f.prices) :
                  HasBothSides(it.prices) =>
                      \E i \in DOMAIN f.evaluations :
                          f.evaluations[i].pair = it.pair
            /\ \A i \in DOMAIN f.evaluations :
                  /\ f.evaluations[i].buy_price <= 0 =>
                        f.evaluations[i].roi = 0
                  /\ f.evaluations[i].avg_price <= 0 =>
                        f.evaluations[i].spread = 0

\* A pair was evaluated with a buy price of zero and an average price of zero.
C10_Witness ==
    \E h \in Handlers :
        /\ Calculated(handler[h])
        /\ \E i \in DOMAIN handler[h].evaluations :
              LET ev == handler[h].evaluations[i] IN
              /\ ev.buy_price = 0
              /\ ev.avg_price = 0
              /\ ev.roi = 0
              /\ ev.spread = 0

\* The sum of f over a finite set of indices, taken in no particular order.
RECURSIVE SumOver(_, _)
SumOver(S, f) ==
    IF S = { }
    THEN 0
    ELSE LET i == CHOOSE i \in S : TRUE
         IN f[i] + SumOver(S \ { i }, f)

RoiFields(history) == [ i \in DOMAIN history |-> history[i].roi ]
UsdFields(history) ==
    [ i \in DOMAIN history |-> history[i].usd_operation_value ]

\* The reorderings of a ledger.
Reorderings(history) ==
    { [ i \in DOMAIN history |-> history[perm[i]] ] :
        perm \in { q \in [ DOMAIN history -> DOMAIN history ] :
                     \A i, j \in DOMAIN history : q[i] = q[j] => i = j } }

\* C11: at every step of two requests handled in any order or at the same
\* time, the ledger before the step is a prefix of the ledger after it: no
\* Transaction is removed, reordered or changed, and a pair already in the
\* ledger is appended again when it qualifies again.
C11_LedgerAppendOnly ==
    [][ /\ Len(transaction_history') >= Len(transaction_history)
        /\ SubSeq(transaction_history', 1, Len(transaction_history)) =
              transaction_history ]_vars

\* Two requests have each appended a Transaction for the same pair.
C11_Witness ==
    /\ \A h \in Handlers : handler[h].pc = "responded"
    /\ \E i \in DOMAIN transaction_history, j \in DOMAIN transaction_history :
          /\ i < j
          /\ transaction_history[i].pair = transaction_history[j].pair

\* The Transactions of the Opportunities a request's call returned are in the
\* ledger, after what the ledger held when the call began.
OwnRecorded(f, history) ==
    \A i \in DOMAIN Reaching(f) :
        \E k \in (Len(f.entry_history) + 1)..Len(history) :
            SameFigures(history[k], Reaching(f)[i])

\* C12: the step that computes total_roi sets it to the sum of the roi fields
\* of the whole ledger of that moment, which holds the transactions appended
\* by the request; the step that computes total_usd_operations does the same
\* with the usd_operation_value fields; each total is the same for every
\* reordering of that ledger and zero for an empty one; the response carries
\* the two totals.
C12_TotalsAreSums ==
    [][ \A h \in Handlers :
          LET f == handler[h]
              g == handler'[h]
          IN /\ ( f.pc = "substituted" /\ g # f ) =>
                    /\ OwnRecorded(f, transaction_history)
                    /\ g.total_roi =
                          SumOver(DOMAIN transaction_history,
                                  RoiFields(transaction_history))
                    /\ \A r \in Reorderings(transaction_history) :
                          TotalRoi(r) = g.total_roi
                    /\ transaction_history = << >> => g.total_roi = 0
             /\ ( f.pc = "roi_summed" /\ g # f ) =>
                    /\ OwnRecorded(f, transaction_history)
                    /\ g.total_usd_operations =
                          SumOver(DOMAIN transaction_history,
                                  UsdFields(transaction_history))
                    /\ \A r \in Reorderings(transaction_history) :
                          TotalUsdOperations(r) = g.total_usd_operations
                    /\ transaction_history = << >> =>
                          g.total_usd_operations = 0
             /\ ( f.pc = "summed" /\ g # f ) =>
                    /\ g.response[1].performance.total_roi = f.total_roi
                    /\ g.response[1].performance.total_usd_operations =
                          f.total_usd_operations ]_vars

\* A response whose totals are the sums over a ledger that holds two
\* transactions of the request, with different ROIs, after one of another
\* request.
C12_Witness ==
    \E h \in Handlers :
        LET f == handler[h] IN
        /\ f.pc = "responded"
        /\ Len(f.entry_history) >= 1
        /\ Len(Reaching(f)) = 2
        /\ Reaching(f)[1].roi # Reaching(f)[2].roi
        /\ f.response[1].performance.total_roi =
              SumOver(DOMAIN transaction_history, RoiFields(transaction_history))
        /\ f.response[1].performance.total_roi >
              Reaching(f)[1].roi + Reaching(f)[2].roi

\* C13: the step after calculate_arbitrage turns an empty results list into
\* a list of exactly one placeholder and leaves a list with at least one
\* Opportunity as it is; the results of the response are that list, and they
\* are never empty.
C13_ResultsNeverEmpty ==
    [][ \A h \in Handlers :
          LET f == handler[h]
              g == handler'[h]
          IN /\ ( f.pc = "calculated" /\ g # f ) =>
                    /\ f.results = << >> => g.results = << Placeholder >>
                    /\ f.results # << >> => g.results = f.results
             /\ f.pc \in { "substituted", "roi_summed", "summed" } =>
                    g.results = f.results
             /\ ( f.pc = "summed" /\ g # f ) =>
                    /\ g.response[1].results = f.results
                    /\ g.response[1].results # << >> ]_vars

\* A request was answered with the placeholder while another request was
\* answered with its real Opportunities.
C13_Witness ==
    \E h \in Handlers, k \in Handlers :
        /\ handler[h].pc = "responded"
        /\ handler[h].response[1].results = << Placeholder >>
        /\ Reaching(handler[h]) = << >>
        /\ handler[k].pc = "responded"
        /\ handler[k].response[1].results = Reaching(handler[k])
        /\ Len(Reaching(handler[k])) >= 1

\* Price snapshots of the first pair used to compare real Opportunities with
\* the placeholder: last prices on the reference exchange, on the first other
\* exchange and, when c is not None, on the second other exchange.
Snapshot(s, b, c) ==
    [ e \in Exchanges |->
        IF e = reference
        THEN Some([ last |-> Some(s), volume |-> None ])
        ELSE IF e = ExchangeOrder[2]
             THEN Some([ last |-> Some(b), volume |-> None ])
             ELSE IF e = ExchangeOrder[3] /\ c # None
                  THEN Some([ last |-> c, volume |-> None ])
                  ELSE None ]

\* Opportunities calculate_arbitrage returns for three such snapshots.
RealOpportunities ==
    UNION { Range(calculate_arbitrage(
                    << [ pair |-> Pairs[1], prices |-> snap ] >>,
                    << >>, { }, << 0 >>).results) :
            snap \in { Snapshot(3020, 3000, None),
                       Snapshot(415, 411, None),
                       Snapshot(1009, 1000, Some(3988)) } }

\* The request got no Opportunity from calculate_arbitrage.
FellBack(f) == Reaching(f) = << >>

\* C14 as stated: when a response carries the placeholder, the placeholder has
\* a field that real Opportunities do not have, or a field whose value no
\* real Opportunity has.
C14_PlaceholderHasMarker ==
    \A h \in Handlers :
        ( handler[h].pc = "responded" /\ FellBack(handler[h]) ) =>
            LET ph == handler[h].response[1].results[1] IN
            \E x \in DOMAIN ph :
                \A opp \in RealOpportunities :
                    x \notin DOMAIN opp \/ opp[x] # ph[x]

\* Thresholds compared, in units of 1/BP: 0%, 0.02%, 0.2% (the configured
\* one), 0.4% and 1%.
Margins == { 0, 2, min_profit_margin, 40, 100 }

\* C15: for the price dict of a call and thresholds m1 <= m2, the pairs
\* emitted under m2 are among the pairs emitted under m1; the pairs the call
\* returned are those emitted under the configured threshold.
C15_MonotonicInThreshold ==
    \A h \in Handlers :
        Calculated(handler[h]) =>
            LET f == handler[h] IN
            /\ { f.results[i].pair : i \in DOMAIN f.results } =
                  QualifyingPairs(f.prices, min_profit_margin)
            /\ \A m1 \in Margins, m2 \in Margins :
                  m1 <= m2 =>
                      QualifyingPairs(f.prices, m2)
                        \subseteq QualifyingPairs(f.prices, m1)

\* A call on two pairs: one is emitted under the configured threshold, the
\* other only under a lower one, and none under a higher one.
C15_Witness ==
    \E h \in Handlers :
        /\ Calculated(handler[h])
        /\ Len(handler[h].results) = 1
        /\ Cardinality(QualifyingPairs(handler[h].prices, 2)) = 2
        /\ QualifyingPairs(handler[h].prices, 40) = { }

\* The snapshot of the scenario: the reference exchange reports 3020, one
\* other exchange reports 3000, and no further exchange has a valid price.
IsScenario(pair_prices) ==
    /\ HasLast(pair_prices, reference)
    /\ SellPrice(pair_prices) = 3020
    /\ Cardinality(ValidOthers(pair_prices)) = 1
    /\ LeastOther(pair_prices) = 3000

\* x, in units of 1/BP of a dollar, is the given number of cents when rounded
\* to the cent.
NearDollars(x, cents) ==
    /\ x - cents * (BP \div 100) <= BP \div 200
    /\ cents * (BP \div 100) - x <= BP \div 200

\* roi, in units of 1/Scale percent, is the quoted figure to the last quoted
\* digit.
NearPercent(roi, thousandths) ==
    roi - thousandths <= 1 /\ thousandths - roi <= 1

\* The call returned exactly one Opportunity for the pair of the item, bought
\* on the other exchange of the scenario and sold on the reference exchange.
OneOpportunity(f, it) ==
    /\ Cardinality({ i \in DOMAIN f.results : f.results[i].pair = it.pair }) = 1
    /\ \A i \in DOMAIN f.results :
          f.results[i].pair = it.pair =>
              /\ f.results[i].buy_exchange \in ValidOthers(it.prices)
              /\ f.results[i].buy_price = 3000
              /\ f.results[i].sell_exchange = reference
              /\ f.results[i].sell_price = 3020

RoiOf(f, pair) == (CHOOSE ev \in Range(f.evaluations) : ev.pair = pair).roi

\* C16 as stated: in the scenario the adjusted buy price is 3004.50, the
\* adjusted sell price 3016.49 and the ROI 0.399%, and exactly one
\* Opportunity is returned, bought on A and sold on the reference exchange.
C16_AsStated ==
    \A h \in Handlers :
        Calculated(handler[h]) =>
            \A it \in Range(handler[h].prices) :
                IsScenario(it.prices) =>
                    /\ NearDollars(AdjustedBuy(LeastOther(it.prices)), 300450)
                    /\ NearDollars(AdjustedSell(SellPrice(it.prices)), 301649)
                    /\ NearPercent(RoiOf(handler[h], it.pair), 399)
                    /\ OneOpportunity(handler[h], it)

\* C16 amended: in the scenario the adjusted buy price is 3004.50, the
\* adjusted sell price 3015.47 and the ROI 0.365%, and exactly one
\* Opportunity is returned, bought on A and sold on the reference exchange.
C16_Amended ==
    \A h \in Handlers :
        Calculated(handler[h]) =>
            \A it \in Range(handler[h].prices) :
                IsScenario(it.prices) =>
                    /\ NearDollars(AdjustedBuy(LeastOther(it.prices)), 300450)
                    /\ NearDollars(AdjustedSell(SellPrice(it.prices)), 301547)
                    /\ NearPercent(RoiOf(handler[h], it.pair), 365)
                    /\ OneOpportunity(handler[h], it)

\* A call on the snapshot of the scenario alone has returned one Opportunity.
C16_Witness ==
    \E h \in Handlers :
        LET f == handler[h] IN
        /\ Calculated(f)
        /\ Len(f.prices) = 1
        /\ IsScenario(f.prices[1].prices)
        /\ Len(f.results) = 1
        /\ \E k \in DOMAIN transaction_history :
              SameFigures(transaction_history[k], f.results[1])

\* The candidates a call has gone through, or all of them once it returned.
Passed(f) ==
    IF f.pc = "filtered" THEN Pairs ELSE SubSeq(Pairs, 1, f.cursor - 1)

Kept(f) == IF f.pc = "filtered" THEN f.pairs ELSE f.supported_pairs

\* C17: the list a call builds and returns is the part of the candidate list
\* it has gone through, in the order of the candidate list, without some
\* pairs; the pairs left out are exactly those that were in unsupported_pairs
\* when the loop reached them (skipped) and those that fewer than 2 answering
\* exchanges list (ineligible).
C17_OrderPreserved ==
    [][ \A h \in Handlers :
          LET f == handler[h]
              g == handler'[h]
          IN /\ g.pc \in { "filtering", "querying", "filtered" } =>
                    Kept(g) = SelectSeq(Passed(g),
                                        LAMBDA p : p \in Range(Kept(g)))
             /\ ( f.pc = "filtering" /\ g.pc = "filtering" /\ g # f ) =>
                    /\ PairAt(f) \in unsupported_pairs
                    /\ PairAt(f) \notin Range(Kept(g))
             /\ ( f.pc = "querying" /\ g.pc = "filtering" ) =>
                    ( PairAt(f) \in Range(Kept(g)) <=>
                        Cardinality(ListedBySucceeded(f)) >= 2 )
             /\ ( f.pc = "filtering" /\ g.pc = "filtered" ) =>
                    Kept(g) = Kept(f) ]_vars

\* A call has returned the first and the last candidate pair, in that order.
C17_Witness ==
    \E h \in Handlers :
        LET f == handler[h] IN
        /\ f.pc = "filtered"
        /\ Len(f.pairs) >= 2
        /\ f.pairs[1] = Pairs[1]
        /\ f.pairs[Len(f.pairs)] = Pairs[Len(Pairs)]

\* C18: the ledger changes only in the step that appends the transaction a
\* call of calculate_arbitrage has built, and that Transaction carries the
\* figures computed from the price dict of that call for a pair that reached
\* the minimum margin; no step of a request that is answered with the
\* placeholder changes the ledger; its response carries the placeholder, and
\* when no other request has appended meanwhile, the ledger and the totals of
\* the ledger the request began with.
C18_PlaceholderNotRecorded ==
    [][ \A h \in Handlers :
          LET f == handler[h]
              g == handler'[h]
          IN /\ ( g # f /\ transaction_history' # transaction_history ) =>
                    /\ f.pc = "recording"
                    /\ LET tx == transaction_history'[Len(transaction_history')]
                       IN /\ \E ev \in Range(f.evaluations) :
                                SameFigures(tx, ev)
                          /\ HasBothSides(PricesOf(f, tx.pair))
                          /\ tx.sell_price = SellPrice(PricesOf(f, tx.pair))
                          /\ tx.buy_price = LeastOther(PricesOf(f, tx.pair))
                          /\ tx.roi >= MarginPercent
             /\ ( g # f /\ f.pc = "calculated" ) =>
                    transaction_history' = transaction_history
             /\ ( g # f /\ FellBack(f) /\ FellBack(g) ) =>
                    transaction_history' = transaction_history
             /\ ( g # f /\ f.pc = "summed" /\ FellBack(f) ) =>
                    /\ g.response[1].results = << Placeholder >>
                    /\ transaction_history = f.entry_history =>
                          /\ g.response[1].transaction_history = f.entry_history
                          /\ g.response[1].performance.total_roi =
                                SumOver(DOMAIN f.entry_history,
                                        RoiFields(f.entry_history))
                          /\ g.response[1].performance.total_usd_operations =
                                SumOver(DOMAIN f.entry_history,
                                        UsdFields(f.entry_history)) ]_vars

\* A request was answered with the placeholder while the ledger held the
\* transactions of another request; its totals are theirs.
C18_Witness ==
    \E h \in Handlers :
        LET f == handler[h] IN
        /\ f.pc = "responded"
        /\ FellBack(f)
        /\ f.response[1].results = << Placeholder >>
        /\ Len(f.entry_history) >= 1
        /\ f.response[1].transaction_history = f.entry_history
        /\ f.response[1].performance.total_roi =
              SumOver(DOMAIN f.entry_history, RoiFields(f.entry_history))
        /\ f.response[1].performance.total_roi > 0

\* The responses returned so far by the two threads.
Responses ==
    { handler[h].response[1] :
        h \in { k \in Handlers : handler[k].response # None } }

\* C19 as stated: with two requests handled at the same time, the totals of
\* every response are the sums over the transaction_history of that response,
\* and every Opportunity of its results other than the placeholder has its
\* Transaction in that transaction_history.
C19_ResponsesSelfConsistent ==
    \A r \in Responses :
        /\ r.performance.total_roi =
              SumOver(DOMAIN r.transaction_history,
                      RoiFields(r.transaction_history))
        /\ r.performance.total_usd_operations =
              SumOver(DOMAIN r.transaction_history,
                      UsdFields(r.transaction_history))
        /\ r.results # << Placeholder >> =>
              \A i \in DOMAIN r.results :
                  \E k \in DOMAIN r.transaction_history :
                      SameFigures(r.transaction_history[k], r.results[i])

\* C20: every Opportunity returned and every Transaction of the ledger has a
\* sell price strictly greater than its buy price and a usd_operation_value
\* strictly greater than the fixed investment.
C20_SellAboveBuy ==
    /\ \A h \in Handlers :
          \A i \in DOMAIN handler[h].results :
              LET opp == handler[h].results[i] IN
              /\ opp.sell_price > opp.buy_price
              /\ opp.usd_operation_value > fixed_investment * Scale
    /\ \A i \in DOMAIN transaction_history :
          /\ transaction_history[i].sell_price > transaction_history[i].buy_price
          /\ transaction_history[i].usd_operation_value > fixed_investment * Scale

\* A call has returned an Opportunity for one pair and none for a pair whose
\* sell price is not above its buy price.
C20_Witness ==
    /\ transaction_history # << >>
    /\ \E h \in Handlers :
          LET f == handler[h] IN
          /\ Calculated(f)
          /\ f.results # << >>
          /\ \E i \in DOMAIN f.evaluations :
                /\ f.evaluations[i].sell_price <= f.evaluations[i].buy_price
                /\ f.evaluations[i].buy_price > 0
                /\ ~Emitted(f, f.evaluations[i].pair)

====
